---- MODULE Spec2Model ----
(***************************************************************************)
(* Model of galpy/potential/DoubleExponentialDiskPotential.py.             *)
(*                                                                         *)
(* Floating-point numbers are modelled as exact rationals <<num, den>>     *)
(* with den > 0.  The value an evaluation returns is kept symbolic: which  *)
(* weighted kernel terms were summed, under which prefactor, at which      *)
(* (R, |z|), and whether the sign branch negated it.  The transcendental   *)
(* factors of a kernel (exp, Bessel J, the -3/2 power) are never computed; *)
(* only what decides the control flow and the IEEE class of a term (NaN,   *)
(* infinite, exactly zero, finite) is.                                     *)
(***************************************************************************)
EXTENDS Integers, Sequences, FiniteSets, TLC

VARIABLES self, pc, ctorError, call, result

vars == <<self, pc, ctorError, call, result>>

(***************************************************************************)
(* Bounds of the model.                                                    *)
(***************************************************************************)
\* length of the legacy Bessel-zero tables (the source fixes 100)
nzeros == 8
\* largest Gauss-Legendre order a constructor call is given
MaxGlorder == 2
\* largest DE table size a constructor call is given
MaxDeN == 3
\* longest coordinate batch passed to an evaluation call
MaxBatch == 2

\* default of the constructor's kmaxFac argument
kmaxFacDefault == 2

(***************************************************************************)
(* Rationals.                                                              *)
(***************************************************************************)
Abs(n) == IF n < 0 THEN -n ELSE n

RECURSIVE GCD(_, _)
GCD(a, b) == IF b = 0 THEN a ELSE GCD(b, a % b)

RNorm(n, d) ==
    LET g == GCD(Abs(n), Abs(d))
        s == IF d < 0 THEN -1 ELSE 1
    IN  <<s * (n \div g), s * (d \div g)>>

RInt(n) == <<n, 1>>
RAdd(a, b) == RNorm(a[1] * b[2] + b[1] * a[2], a[2] * b[2])
RSub(a, b) == RNorm(a[1] * b[2] - b[1] * a[2], a[2] * b[2])
RMul(a, b) == RNorm(a[1] * b[1], a[2] * b[2])
\* a / b for b # 0
RDiv(a, b) == RNorm(a[1] * b[2], a[2] * b[1])
RNeg(a) == <<-a[1], a[2]>>
RAbs(a) == <<Abs(a[1]), a[2]>>
RLt(a, b) == a[1] * b[2] < b[1] * a[2]
RLe(a, b) == a[1] * b[2] <= b[1] * a[2]
REq(a, b) == a[1] * b[2] = b[1] * a[2]
RZero(a) == a[1] = 0
RPos(a) == a[1] > 0

(***************************************************************************)
(* Library tables the constructor asks for (numpy, scipy.special).         *)
(***************************************************************************)
\* numpy.polynomial.legendre.leggauss(deg): abscissae, in hundredths
leggaussX(deg) ==
    CASE deg = 1 -> <<RInt(0)>>
      [] deg = 2 -> <<RNorm(-58, 100), RNorm(58, 100)>>
      [] deg = 3 -> <<RNorm(-77, 100), RInt(0), RNorm(77, 100)>>
      [] OTHER   -> <<RNorm(-86, 100), RNorm(-34, 100), RNorm(34, 100), RNorm(86, 100)>>

\* numpy.polynomial.legendre.leggauss(deg): weights, in hundredths
leggaussW(deg) ==
    CASE deg = 1 -> <<RInt(2)>>
      [] deg = 2 -> <<RInt(1), RInt(1)>>
      [] deg = 3 -> <<RNorm(56, 100), RNorm(89, 100), RNorm(56, 100)>>
      [] OTHER   -> <<RNorm(35, 100), RNorm(65, 100), RNorm(65, 100), RNorm(35, 100)>>

\* the first positive zeros of J0, J1, J2, in hundredths
BesselZeros100(nu) ==
    CASE nu = 0 -> <<240, 552, 865, 1179, 1493, 1807, 2121, 2435, 2749, 3063>>
      [] nu = 1 -> <<383, 702, 1017, 1332, 1647, 1962, 2276, 2590, 2905, 3219>>
      [] OTHER  -> <<514, 842, 1162, 1480, 1796, 2112, 2427, 2742, 3057, 3372>>

\* scipy.special.jn_zeros(nu, nt) for nt >= 1: the first nt positive zeros
jn_zeros(nu, nt) == [k \in 1..nt |-> RNorm(BesselZeros100(nu)[k], 100)]

\* pi/de_h * _de_psi(de_h * jn_zeros(nu, n)/pi) for de_h = 1e-3, in thousandths
DeNodes1000(nu) ==
    CASE nu = 0 -> <<3, 15, 37, 70, 111, 163>>
      [] OTHER  -> <<7, 25, 52, 89, 136, 192>>

\* the DE weights for de_h = 1e-3, in millionths
DeWeights1000000(nu) ==
    CASE nu = 0 -> <<7421, 17273, 27132, 36966, 46734, 56370>>
      [] OTHER  -> <<45, 273, 830, 1860, 3506, 5906>>

(***************************************************************************)
(* __init__                                                                *)
(***************************************************************************)
NoModel == [constructed |-> FALSE]

\* numpy.roll(a, 1) of a table indexed 0..n
roll1(a, n) == [i \in 0..n |-> a[(i - 1) % (n + 1)]]

\* numpy.zeros(nzeros+1) with entries 1..nzeros overwritten by the zeros
zerosTable(nu) ==
    LET zs == jn_zeros(nu, nzeros)
    IN  [i \in 0..nzeros |-> IF i = 0 THEN RInt(0) ELSE zs[i]]

\* the successive-difference table without the assignment to entry 0:
\* entry 0 keeps the wrap-around of numpy.roll, a[0] - a[nzeros]
dzerosTableNoFirstFix(a) ==
    LET r == roll1(a, nzeros)
    IN  [i \in 0..nzeros |-> RSub(a[i], r[i])]

\* the successive-difference table: a - roll(a, 1), then entry 0 := a[0]
dzerosTable(a) ==
    LET r == roll1(a, nzeros)
        d == [i \in 0..nzeros |-> RSub(a[i], r[i])]
    IN  [d EXCEPT ![0] = a[0]]

de_xs(nu, n) == [k \in 1..n |-> RNorm(DeNodes1000(nu)[k], 1000)]
de_weights(nu, n) == [k \in 1..n |-> RNorm(DeWeights1000000(nu)[k], 1000000)]

\* the exception __init__ raises for these arguments, "" when it raises none
initError(hr, hz, glorder, de_n) ==
    CASE RZero(hr)    -> "ZeroDivisionError"
      [] RZero(hz)    -> "ZeroDivisionError"
      [] glorder <= 0 -> "ValueError"
      [] de_n <= 0    -> "ValueError"
      [] OTHER        -> ""

\* the attributes of the object __init__ leaves behind when it raises nothing
initSelf(hr, hz, kmaxFac, glorder, de, de_n) ==
    LET alpha == RDiv(RInt(1), hr)
        beta  == RDiv(RInt(1), hz)
        j0 == zerosTable(0)
        j1 == zerosTable(1)
        j2 == zerosTable(2)
    IN  [constructed |-> TRUE,
         kmaxFac |-> kmaxFac, glorder |-> glorder,
         hr |-> hr, scale |-> hr, hz |-> hz,
         alpha |-> alpha, beta |-> beta, gamma |-> RDiv(alpha, beta),
         zforceNotSetUp |-> TRUE,
         glx |-> leggaussX(glorder), glw |-> leggaussW(glorder),
         nzeros |-> nzeros,
         j0zeros |-> j0, dj0zeros |-> dzerosTable(j0),
         j1zeros |-> j1, dj1zeros |-> dzerosTable(j1),
         j2zeros |-> j2, dj2zeros |-> dzerosTable(j2),
         de |-> de, de_n |-> de_n,
         de_j0_xs |-> de_xs(0, de_n), de_j0_weights |-> de_weights(0, de_n),
         de_j1_xs |-> de_xs(1, de_n), de_j1_weights |-> de_weights(1, de_n),
         \* KeplerPotential(normalize=4*pi/alpha**2/beta), as a multiple of pi
         kp |-> [normalize |-> RDiv(RDiv(RInt(4), RMul(alpha, alpha)), beta)]]

(***************************************************************************)
(* Arguments, results and returned values.                                 *)
(*                                                                         *)
(* An argument is [kind, v]: kind "float" or "int" is a Python scalar      *)
(* (v has one entry), kind "ndarray" a one-dimensional numpy array.        *)
(* A result is [status, err, shape, elems, kpCalls, reads]: shape <<>> is  *)
(* a scalar, <<n>> an array of n elements.                                 *)
(* A returned number is [tag, zero, neg, body]: tag is its IEEE class,     *)
(* zero says it is exactly 0.0, neg that the method returned the negated   *)
(* branch, body names the expression that was summed.                      *)
(***************************************************************************)
NoCall == [op |-> "none"]
NoResult == [status |-> "none"]

isScalar(a) == a.kind \in {"float", "int"}
shapeOf(a) == IF isScalar(a) THEN <<>> ELSE <<Len(a.v)>>

Raise(err, reads) ==
    [status |-> "error", err |-> err, shape |-> <<>>, elems |-> <<>>,
     kpCalls |-> 0, reads |-> reads]

Return(shape, elems, kpCalls, reads) ==
    [status |-> "ok", err |-> "", shape |-> shape, elems |-> elems,
     kpCalls |-> kpCalls, reads |-> reads]

Val(tag, zero, neg, body) ==
    [tag |-> tag, zero |-> (tag = "fin" /\ zero), neg |-> neg, body |-> body]

Elem(val, path, quads) == [val |-> val, path |-> path, quads |-> quads]

\* Python's a == b on two returned floats
ValEq(a, b) ==
    /\ a.tag # "nan" /\ b.tag # "nan"
    /\ a.tag = b.tag
    /\ \/ a.zero /\ b.zero
       \/ ~a.zero /\ ~b.zero /\ a.neg = b.neg /\ a.body = b.body

\* Python's -a
ValNeg(a) == [a EXCEPT !.neg = ~@]

fabs(z) == RAbs(z)

(***************************************************************************)
(* The kernels.  Every kernel is                                           *)
(*   factor(k) * (alpha**2+k**2)**-1.5 * numerator(k,|z|)/(beta**2-k**2)   *)
(* with k = x/R (DE) or k = ks (legacy).                                   *)
(***************************************************************************)
\* whether the numerator of op's kernel is exactly zero at wavenumber k
numeratorZero(op, k, az, beta) ==
    CASE op \in {"zforce", "Rzderiv"} ->
            \* exp(-k*|z|) - exp(-beta*|z|)
            RZero(az) \/ REq(k, beta)
      [] op = "z2deriv" ->
            \* k*exp(-k*|z|) - beta*exp(-beta*|z|)
            REq(k, beta)
      [] OTHER ->
            \* beta*exp(-k*|z|) - k*exp(-beta*|z|)
            REq(k, beta)

\* the IEEE class of op's kernel at wavenumber k: "nan", "inf", "zero", "fin"
kernelClass(op, k, az, beta) ==
    LET \* beta**2 - k**2 == 0, decided as |k| == |beta|
        denZero == REq(RAbs(k), RAbs(beta))
        numZero == numeratorZero(op, k, az, beta)
    IN  CASE denZero /\ numZero  -> "nan"
          [] denZero /\ ~numZero -> "inf"
          [] ~denZero /\ numZero -> "zero"
          [] OTHER               -> "fin"

\* the IEEE class of fun(x) of the DE branch of op, at array element (x, R, z)
funClass(op, x, R, az, beta) ==
    \* x/R with R == 0 is inf, and every kernel is then nan
    IF RZero(R) THEN "nan" ELSE kernelClass(op, RDiv(x, R), az, beta)

\* a - b elementwise, on IEEE classes
subClass(a, b) ==
    CASE a = "nan" \/ b = "nan" -> "nan"
      [] a = "inf" /\ b = "inf" -> "nan"
      [] a = "inf" \/ b = "inf" -> "inf"
      [] a = "zero" /\ b = "zero" -> "zero"
      [] OTHER -> "fin"

\* numpy.nansum of an array given as the set of its entries [cls, ids]:
\* NaN entries are treated as zero
nansum(entries) ==
    LET kept == {e \in entries : e.cls # "nan"}
    IN  [tag   |-> IF \E e \in kept : e.cls = "inf" THEN "inf" ELSE "fin",
         zero  |-> \A e \in kept : e.cls = "zero",
         terms |-> UNION {e.ids : e \in kept}]

\* numpy.sum of an array given as the set of its entries: NaN propagates
npsum(entries) ==
    [tag   |-> IF \E e \in entries : e.cls = "nan" THEN "nan"
               ELSE IF \E e \in entries : e.cls = "inf" THEN "inf" ELSE "fin",
     zero  |-> \A e \in entries : e.cls = "zero",
     terms |-> UNION {e.ids : e \in entries}]

\* prefactor * sum, where the prefactor divides by a power of R
scaled(sum, R) ==
    CASE RZero(R) /\ sum.tag = "fin" /\ sum.zero -> [sum EXCEPT !.tag = "nan"]
      [] RZero(R) /\ sum.tag = "fin"             -> [sum EXCEPT !.tag = "inf"]
      [] OTHER -> sum

(***************************************************************************)
(* The DE branch shared by _Rforce, _zforce, _R2deriv, _z2deriv, _Rzderiv: *)
(* fun(xs)*weights under numpy broadcasting, then numpy.nansum.            *)
(***************************************************************************)
Max(S) == CHOOSE x \in S : \A y \in S : y <= x

\* entry j of an operand of length 1 (a Python scalar too) or L
bcast(v, j) == IF Len(v) = 1 THEN v[1] ELSE v[j]

\* the lengths numpy has to broadcast in fun(xs)*weights
deLens(s, R, z) ==
    {s.de_n} \cup (IF isScalar(R) THEN {} ELSE {Len(R.v)})
             \cup (IF isScalar(z) THEN {} ELSE {Len(z.v)})

deBroadcasts(s, R, z) ==
    \A l \in deLens(s, R, z) : l \in {1, Max(deLens(s, R, z))}

term(sgn, nu, at, node, R, az) ==
    [sgn |-> sgn, nu |-> nu, at |-> at, node |-> node, R |-> R, az |-> az]

\* the array fun(de_j<nu>_xs)*de_j<nu>_weights of op, as its set of entries
deEntries(s, op, nu, R, z) ==
    LET xs == IF nu = 0 THEN s.de_j0_xs ELSE s.de_j1_xs
        L  == Max(deLens(s, R, z))
    IN  {[at  |-> j,
          cls |-> funClass(op, bcast(xs, j), bcast(R.v, j), fabs(bcast(z.v, j)), s.beta),
          ids |-> {term(1, nu, j, IF s.de_n = 1 THEN 1 ELSE j,
                        bcast(R.v, j), fabs(bcast(z.v, j)))}] : j \in 1..L}

\* _R2deriv's array fun(de_j0_xs)*de_j0_weights
\*                  - fun(de_j1_xs)/de_j1_xs*de_j1_weights, as its set of entries
deEntriesR2(s, R, z) ==
    LET L == Max(deLens(s, R, z))
    IN  {[at  |-> j,
          cls |-> subClass(
                    funClass("R2deriv", bcast(s.de_j0_xs, j), bcast(R.v, j),
                             fabs(bcast(z.v, j)), s.beta),
                    funClass("R2deriv", bcast(s.de_j1_xs, j), bcast(R.v, j),
                             fabs(bcast(z.v, j)), s.beta)),
          ids |-> {term(1, 0, j, IF s.de_n = 1 THEN 1 ELSE j,
                        bcast(R.v, j), fabs(bcast(z.v, j))),
                   term(-1, 1, j, IF s.de_n = 1 THEN 1 ELSE j,
                        bcast(R.v, j), fabs(bcast(z.v, j)))}] : j \in 1..L}

deReads(nus) ==
    {"de", "alpha", "beta"}
      \cup (IF 0 \in nus THEN {"de_j0_xs", "de_j0_weights"} ELSE {})
      \cup (IF 1 \in nus THEN {"de_j1_xs", "de_j1_weights"} ELSE {})

\* prefactor/R**p * numpy.nansum(entries): the prefactor is a Python float for
\* a Python scalar R (division by 0.0 raises) and an array for an array R
deOut(s, op, nus, entries, R, z) ==
    IF isScalar(R) /\ RZero(R.v[1]) THEN Raise("ZeroDivisionError", deReads({}))
    ELSE IF ~deBroadcasts(s, R, z) THEN Raise("ValueError", deReads(nus))
    ELSE LET sum == nansum(entries)
         IN  Return(shapeOf(R),
                    [i \in 1..Len(R.v) |->
                       Elem(Val(scaled(sum, R.v[i]).tag, sum.zero, FALSE,
                                [src |-> "de", op |-> op, R |-> R.v[i],
                                 terms |-> sum.terms]),
                            "de", <<>>)],
                    0, deReads(nus))

negated(out) ==
    [out EXCEPT !.elems = [i \in 1..Len(out.elems) |->
                             [out.elems[i] EXCEPT !.val = ValNeg(@)]]]

\* the sign branch with its else lost: out is returned for every z
signBranchNoFlip(out, z, reads) ==
    IF out.status = "error" THEN out
    ELSE IF ~isScalar(z) /\ Len(z.v) > 1 THEN Raise("ValueError", reads)
    ELSE out

\* "if z > 0.: return out / else: return -out": the truth value of an array
\* of more than one element is a ValueError
signBranch(out, z, reads) ==
    IF out.status = "error" THEN out
    ELSE IF ~isScalar(z) /\ Len(z.v) > 1 THEN Raise("ValueError", reads)
    ELSE IF RPos(z.v[1]) THEN out ELSE negated(out)

(***************************************************************************)
(* The legacy branch: Gauss-Legendre quadrature between Bessel zeros.      *)
(***************************************************************************)
zerosOf(s, nu) == CASE nu = 0 -> s.j0zeros [] nu = 1 -> s.j1zeros [] OTHER -> s.j2zeros
dzerosOf(s, nu) == CASE nu = 0 -> s.dj0zeros [] nu = 1 -> s.dj1zeros [] OTHER -> s.dj2zeros

\* "if R < 1.: R4max= 1. / else: R4max= R"
R4maxOf(R) == IF RLt(R, RInt(1)) THEN RInt(1) ELSE R

\* numpy.argmin((zeros-t)**2.): the first index of the smallest entry;
\* (a-t)**2 < (b-t)**2 is decided as |a-t| < |b-t|
argminSq(zeros, t) ==
    CHOOSE i \in 0..nzeros :
        /\ \A j \in 0..nzeros : RLe(RAbs(RSub(zeros[i], t)), RAbs(RSub(zeros[j], t)))
        /\ \A j \in 0..(i - 1) : RLt(RAbs(RSub(zeros[i], t)), RAbs(RSub(zeros[j], t)))

\* the node mapping with the difference of the interval before:
\* 0.5*(glx+1.)*dzeros[ii] + zeros[ii]
ksOfWrongDiff(s, nu, ii) ==
    [j \in 1..s.glorder |->
        RAdd(RMul(RMul(RNorm(1, 2), RAdd(s.glx[j], RInt(1))), dzerosOf(s, nu)[ii]),
             zerosOf(s, nu)[ii])]

\* 0.5*(glx+1.)*dzeros[ii+1] + zeros[ii]
ksOf(s, nu, ii) ==
    [j \in 1..s.glorder |->
        RAdd(RMul(RMul(RNorm(1, 2), RAdd(s.glx[j], RInt(1))), dzerosOf(s, nu)[ii + 1]),
             zerosOf(s, nu)[ii])]

\* one truncated quadrature: the cutoff index m and, for ii in range(m), the
\* interval the Gauss-Legendre rule is mapped onto and its nodes
quadOf(s, nu, kmax, R) ==
    LET t == RMul(kmax, R4maxOf(R))
        m == argminSq(zerosOf(s, nu), t)
    IN  [nu |-> nu, t |-> t, m |-> m,
         ivs |-> [n \in 1..m |->
                    [lo    |-> zerosOf(s, nu)[n - 1],
                     width |-> dzerosOf(s, nu)[n],
                     ks    |-> ksOf(s, nu, n - 1)]],
         idx |-> UNION {{ii, ii + 1} : ii \in 0..(m - 1)}]

\* the array weights*evalInt of op over the nodes of q, as its set of entries
quadEntries(s, op, sgn, q, R, z) ==
    {[at  |-> <<n, j>>,
      cls |-> kernelClass(op, q.ivs[n].ks[j], fabs(z), s.beta),
      ids |-> {term(sgn, q.nu, <<n, j>>, q.ivs[n].ks[j], R, fabs(z))}]
        : n \in 1..q.m, j \in 1..s.glorder}

quadReads(nus) ==
    {"de", "kmaxFac", "beta", "alpha", "glx", "glw"}
      \cup (IF 0 \in nus THEN {"j0zeros", "dj0zeros"} ELSE {})
      \cup (IF 1 \in nus THEN {"j1zeros", "dj1zeros"} ELSE {})
      \cup (IF 2 \in nus THEN {"j2zeros", "dj2zeros"} ELSE {})

\* prefactor * numpy.sum(weights*evalInt) for one (R, z)
quadElem(s, op, q, R, z) ==
    LET sum == npsum(quadEntries(s, op, 1, q, R, z))
    IN  Elem(Val(sum.tag, sum.zero, FALSE,
                 [src |-> "quad", op |-> op, R |-> R, terms |-> sum.terms]),
             "quad", <<q>>)

\* The asymptotic fallback, KeplerPotential: a point mass, whose vertical
\* force and mixed derivative are odd in z and vanish at z = 0.
kpElem(op, R, z) ==
    LET odd == op \in {"zforce", "Rzderiv"}
    IN  Elem(Val("fin", odd /\ RZero(z), odd /\ RLt(z, RInt(0)),
                 [src |-> "kp", op |-> op, R |-> R,
                  terms |-> {term(1, -1, 0, RInt(0), R, fabs(z))}]),
             "kp", <<>>)

\* what a delegating call reads, of the attributes the method reads
kpReads(reads) == {"de", "kp"} \cup (reads \cap {"hr"})

\* the pairs of zip(R,z) of a legacy method, after "if not
\* isinstance(z,numpy.ndarray): z= numpy.ones_like(R)*z"; one pair for scalars
zipOf(R, z) ==
    LET n == IF isScalar(z) THEN Len(R.v)
             ELSE IF Len(z.v) < Len(R.v) THEN Len(z.v) ELSE Len(R.v)
    IN  [i \in 1..n |-> [R |-> R.v[i], z |-> bcast(z.v, i)]]

\* a legacy method applied to an array: es are the scalar method's values
\* over zip(R,z)
overZip(es, reads) ==
    Return(<<Len(es)>>, es, Cardinality({i \in 1..Len(es) : es[i].path = "kp"}),
           UNION {IF es[i].path = "kp" THEN kpReads(reads) ELSE reads
                    : i \in 1..Len(es)})

\* a legacy method applied to a Python scalar
single(e, reads) ==
    Return(<<>>, <<e>>, IF e.path = "kp" THEN 1 ELSE 0,
           IF e.path = "kp" THEN kpReads(reads) ELSE reads)

legacy(es, R, reads) ==
    IF ~isScalar(R) THEN overZip(es, reads) ELSE single(es[1], reads)

negElem(e) == [e EXCEPT !.val = ValNeg(@)]

(***************************************************************************)
(* The methods.                                                            *)
(***************************************************************************)
scalarArg(x) == [kind |-> "float", v |-> <<x>>]

\* R > 16.*self._hr or R > 6.
beyond16hrOr6(s, R) == RLt(RMul(RInt(16), s.hr), R) \/ RLt(RInt(6), R)

\* R > 6.
beyond6(R) == RLt(RInt(6), R)

\* _evaluate, one row of the DE branch
evaluateDeElem(s, R, z) ==
    LET sum == nansum(deEntries(s, "potential", 0, scalarArg(R), scalarArg(z)))
    IN  Elem(Val(scaled(sum, R).tag, sum.zero, FALSE,
                 [src |-> "de", op |-> "potential", R |-> R, terms |-> sum.terms]),
             "de", <<>>)

\* _evaluate, one element of the legacy branch
evaluateLegacyElem(s, R, z) ==
    IF beyond6(R) THEN kpElem("potential", R, z)
    ELSE quadElem(s, "potential", quadOf(s, 0, RMul(RInt(s.kmaxFac), s.beta), R), R, z)

evaluate(s, R, z) ==
    IF ~isScalar(R) /\ z.kind = "int" THEN Raise("AttributeError", {})
    ELSE LET n  == Len(R.v)
             zz == [i \in 1..n |-> bcast(z.v, i)]
             es == [i \in 1..n |-> IF s.de THEN evaluateDeElem(s, R.v[i], zz[i])
                                   ELSE evaluateLegacyElem(s, R.v[i], zz[i])]
             kp == \E i \in 1..n : es[i].path = "kp"
             qd == \E i \in 1..n : es[i].path = "quad"
         IN  Return(shapeOf(R), es, IF kp THEN 1 ELSE 0,
                    IF s.de THEN deReads({0})
                    ELSE {"de"} \cup (IF kp THEN {"kp"} ELSE {})
                                \cup (IF qd THEN quadReads({0}) ELSE {}))

RforceScalar(s, R, z) ==
    IF beyond16hrOr6(s, R) THEN kpElem("Rforce", R, z)
    ELSE quadElem(s, "Rforce",
                  quadOf(s, 1, RMul(RInt(2 * s.kmaxFac), s.beta), R), R, z)

\* _Rforce with the large-R test ahead of the strategy test
RforceThresholdFirst(s, R, z) ==
    IF isScalar(R) /\ beyond16hrOr6(s, R.v[1])
    THEN single(kpElem("Rforce", R.v[1], z.v[1]), quadReads({1}) \cup {"hr"})
    ELSE IF s.de THEN deOut(s, "Rforce", {1}, deEntries(s, "Rforce", 1, R, z), R, z)
    ELSE legacy([i \in DOMAIN zipOf(R, z) |->
                   RforceScalar(s, zipOf(R, z)[i].R, zipOf(R, z)[i].z)],
                R, quadReads({1}) \cup {"hr"})

Rforce(s, R, z) ==
    IF s.de THEN deOut(s, "Rforce", {1}, deEntries(s, "Rforce", 1, R, z), R, z)
    ELSE legacy([i \in DOMAIN zipOf(R, z) |->
                   RforceScalar(s, zipOf(R, z)[i].R, zipOf(R, z)[i].z)],
                R, quadReads({1}) \cup {"hr"})

zforceScalar(s, R, z) ==
    IF beyond16hrOr6(s, R) THEN kpElem("zforce", R, z)
    ELSE LET e == quadElem(s, "zforce",
                           quadOf(s, 0, RMul(RInt(s.kmaxFac), s.beta), R), R, z)
         IN  IF RPos(z) THEN e ELSE negElem(e)

zforce(s, R, z) ==
    IF s.de
    THEN signBranch(deOut(s, "zforce", {0}, deEntries(s, "zforce", 0, R, z), R, z),
                    z, deReads({0}))
    ELSE legacy([i \in DOMAIN zipOf(R, z) |->
                   zforceScalar(s, zipOf(R, z)[i].R, zipOf(R, z)[i].z)],
                R, quadReads({0}) \cup {"hr"})

R2derivScalar(s, R, z) ==
    IF beyond16hrOr6(s, R) THEN kpElem("R2deriv", R, z)
    ELSE LET kmax == RMul(RInt(2 * s.kmaxFac), s.beta)
             q0   == quadOf(s, 0, kmax, R)
             q2   == quadOf(s, 2, kmax, R)
             sum  == npsum(quadEntries(s, "R2deriv", 1, q0, R, z)
                             \cup quadEntries(s, "R2deriv", -1, q2, R, z))
         IN  Elem(Val(sum.tag, sum.zero, FALSE,
                      [src |-> "quad", op |-> "R2deriv", R |-> R, terms |-> sum.terms]),
                  "quad", <<q0, q2>>)

R2deriv(s, R, z) ==
    IF s.de THEN deOut(s, "R2deriv", {0, 1}, deEntriesR2(s, R, z), R, z)
    ELSE legacy([i \in DOMAIN zipOf(R, z) |->
                   R2derivScalar(s, zipOf(R, z)[i].R, zipOf(R, z)[i].z)],
                R, quadReads({0, 2}) \cup {"hr"})

z2derivScalar(s, R, z) ==
    IF beyond16hrOr6(s, R) THEN kpElem("z2deriv", R, z)
    ELSE quadElem(s, "z2deriv",
                  quadOf(s, 0, RMul(RInt(s.kmaxFac), s.beta), R), R, z)

z2deriv(s, R, z) ==
    IF s.de THEN deOut(s, "z2deriv", {0}, deEntries(s, "z2deriv", 0, R, z), R, z)
    ELSE legacy([i \in DOMAIN zipOf(R, z) |->
                   z2derivScalar(s, zipOf(R, z)[i].R, zipOf(R, z)[i].z)],
                R, quadReads({0}) \cup {"hr"})

RzderivScalar(s, R, z) ==
    IF beyond6(R) THEN kpElem("Rzderiv", R, z)
    ELSE LET e == quadElem(s, "Rzderiv",
                           quadOf(s, 1, RMul(RInt(2 * s.kmaxFac), s.beta), R), R, z)
         IN  IF RLe(RInt(0), z) THEN e ELSE negElem(e)

Rzderiv(s, R, z) ==
    IF s.de
    THEN signBranch(deOut(s, "Rzderiv", {1}, deEntries(s, "Rzderiv", 1, R, z), R, z),
                    z, deReads({1}))
    ELSE legacy([i \in DOMAIN zipOf(R, z) |->
                   RzderivScalar(s, zipOf(R, z)[i].R, zipOf(R, z)[i].z)],
                R, quadReads({1}))

\* numpy broadcasting of R against z in a closed form
closedForm(op, R, z) ==
    LET n == IF isScalar(R) THEN Len(z.v) ELSE Len(R.v)
    IN  Return(IF isScalar(R) THEN shapeOf(z) ELSE shapeOf(R),
               [i \in 1..n |->
                  \* 1 - exp(-beta*|z|) is exactly zero at z == 0
                  Elem(Val("fin", op = "surfdens" /\ RZero(bcast(z.v, i)), FALSE,
                           [src |-> "closed", op |-> op, R |-> bcast(R.v, i),
                            terms |-> {term(1, -1, 0, RInt(0), bcast(R.v, i),
                                            fabs(bcast(z.v, i)))}]),
                       "closed", <<>>)],
               0, {"alpha", "beta"})

\* exp(-alpha*R - beta*|z|)
dens(s, R, z) == closedForm("dens", R, z)

\* 2*exp(-alpha*R)/beta*(1 - exp(-beta*|z|))
surfdens(s, R, z) == closedForm("surfdens", R, z)

\* _zforce remembering that it has set up a typical K_z
selfAfterCachingKz(op, s) ==
    IF op = "zforce" THEN [s EXCEPT !.zforceNotSetUp = FALSE] ELSE s

\* no method assigns to an attribute of self
selfAfter(op, s) == s

\* no method writes into the caller's arrays: _evaluate works on
\* R.flatten() and z.flatten(), and writes R4max[(R < 1.)]= 1. into numpy.copy(R)
argsAfter(op, R, z) == [R |-> R, z |-> z]

(***************************************************************************)
(* The arguments the model draws.                                          *)
(***************************************************************************)
\* hr and hz given to the constructor
HrVals == {RNorm(-1, 4), RInt(0), RNorm(1, 4)}
HzVals == {RNorm(-1, 4), RInt(0), RNorm(1, 4), RInt(2), RNorm(5, 6)}

\* R as a Python float; 3/4000 puts the first order-0 DE node on x/R == beta
\* for hz = 1/4
RScalars == {RInt(-1), RInt(0), RNorm(3, 4000), RNorm(1, 2), RInt(5), RInt(7)}
ZScalars == {RInt(-1), RInt(0), RInt(1)}

\* the entries of a batch
BatchR == {RNorm(1, 2), RInt(7)}
BatchZ == {RInt(-1), RInt(1)}

RArgs ==
    {[kind |-> "float", v |-> <<r>>] : r \in RScalars}
      \cup {[kind |-> "ndarray", v |-> a] :
              a \in UNION {[1..n -> BatchR] : n \in 1..MaxBatch}}

ZArgs(R) ==
    {[kind |-> "float", v |-> <<h>>] : h \in ZScalars}
      \cup (IF isScalar(R) THEN {}
            ELSE {[kind |-> "int", v |-> <<RInt(1)>>]}
                   \cup {[kind |-> "ndarray", v |-> [i \in 1..Len(R.v) |-> h]] :
                           h \in BatchZ})

(***************************************************************************)
(* The state machine: one constructor call, then evaluation calls, each    *)
(* returning to the caller before the next.                                *)
(***************************************************************************)
Init ==
    /\ self = NoModel
    /\ pc = "new"
    /\ ctorError = ""
    /\ call = NoCall
    /\ result = NoResult

Construct ==
    /\ pc = "new"
    /\ \E hr \in HrVals, hz \in HzVals, glorder \in 0..MaxGlorder,
          de \in BOOLEAN, de_n \in 0..MaxDeN :
         IF initError(hr, hz, glorder, de_n) = ""
         THEN /\ self' = initSelf(hr, hz, kmaxFacDefault, glorder, de, de_n)
              /\ pc' = "idle"
              /\ UNCHANGED ctorError
         ELSE /\ ctorError' = initError(hr, hz, glorder, de_n)
              /\ pc' = "failed"
              /\ UNCHANGED self
    /\ UNCHANGED <<call, result>>

\* a method has run to its return or its exception
Returned(op, R, z, res) ==
    /\ result' = res
    /\ call' = [op |-> op, R |-> R, z |-> z, after |-> argsAfter(op, R, z)]
    /\ self' = selfAfter(op, self)
    /\ pc' = "returned"
    /\ UNCHANGED ctorError

CallEvaluate ==
    /\ pc = "idle"
    /\ \E R \in RArgs : \E z \in ZArgs(R) : Returned("potential", R, z, evaluate(self, R, z))

CallRforce ==
    /\ pc = "idle"
    /\ \E R \in RArgs : \E z \in ZArgs(R) : Returned("Rforce", R, z, Rforce(self, R, z))

CallZforce ==
    /\ pc = "idle"
    /\ \E R \in RArgs : \E z \in ZArgs(R) : Returned("zforce", R, z, zforce(self, R, z))

CallR2deriv ==
    /\ pc = "idle"
    /\ \E R \in RArgs : \E z \in ZArgs(R) : Returned("R2deriv", R, z, R2deriv(self, R, z))

CallZ2deriv ==
    /\ pc = "idle"
    /\ \E R \in RArgs : \E z \in ZArgs(R) : Returned("z2deriv", R, z, z2deriv(self, R, z))

CallRzderiv ==
    /\ pc = "idle"
    /\ \E R \in RArgs : \E z \in ZArgs(R) : Returned("Rzderiv", R, z, Rzderiv(self, R, z))

CallDens ==
    /\ pc = "idle"
    /\ \E R \in RArgs : \E z \in ZArgs(R) : Returned("dens", R, z, dens(self, R, z))

CallSurfdens ==
    /\ pc = "idle"
    /\ \E R \in RArgs : \E z \in ZArgs(R) : Returned("surfdens", R, z, surfdens(self, R, z))

\* the caller takes the result
Finish ==
    /\ pc = "returned"
    /\ pc' = "idle"
    /\ call' = NoCall
    /\ result' = NoResult
    /\ UNCHANGED <<self, ctorError>>

Next ==
    \/ Construct
    \/ CallEvaluate
    \/ CallRforce
    \/ CallZforce
    \/ CallR2deriv
    \/ CallZ2deriv
    \/ CallRzderiv
    \/ CallDens
    \/ CallSurfdens
    \/ Finish

Spec == Init /\ [][Next]_vars

(***************************************************************************)
(* What the claims speak of.                                               *)
(***************************************************************************)
SixOps == {"potential", "Rforce", "zforce", "R2deriv", "z2deriv", "Rzderiv"}

\* the method behind an operation's name
apply(op, s, R, z) ==
    CASE op = "potential" -> evaluate(s, R, z)
      [] op = "Rforce"    -> Rforce(s, R, z)
      [] op = "zforce"    -> zforce(s, R, z)
      [] op = "R2deriv"   -> R2deriv(s, R, z)
      [] op = "z2deriv"   -> z2deriv(s, R, z)
      [] op = "Rzderiv"   -> Rzderiv(s, R, z)
      [] op = "dens"      -> dens(s, R, z)
      [] OTHER            -> surfdens(s, R, z)

\* the same model built with the other strategy selector
otherStrategy(s) == [s EXCEPT !.de = ~@]

returnedFrom(ops) == pc = "returned" /\ call.op \in ops
allPositive(R) == \A i \in 1..Len(R.v) : RPos(R.v[i])
somewhereNonPositive(R) == \E i \in 1..Len(R.v) : ~RPos(R.v[i])
validShape(s) == RPos(s.alpha) /\ RPos(s.beta)
negOf(a) == [a EXCEPT !.v = [i \in 1..Len(a.v) |-> RNeg(a.v[i])]]

\* C1: every evaluation operation, under either strategy, fails a call with
\* some R <= 0 with an error instead of returning a value, and leaves the
\* model as it was.
C1_NonPositiveRFails ==
    [][(/\ pc = "idle" /\ pc' = "returned"
        /\ call'.op \in SixOps /\ validShape(self)
        /\ somewhereNonPositive(call'.R))
          => (result'.status = "error" /\ self' = self)]_vars

\* C2: no constructed model has alpha <= 0, beta <= 0 or an empty
\* quadrature table: construction with such arguments fails.
C2_NoInvalidModel ==
    self.constructed =>
        /\ RPos(self.alpha) /\ RPos(self.beta)
        /\ self.glorder > 0 /\ Len(self.glx) > 0
        /\ self.de_n > 0 /\ Len(self.de_j0_xs) > 0 /\ Len(self.de_j1_xs) > 0

\* C3: under the DE strategy each of the six operations accepts a scalar R
\* or a batch of any length, with z a same-shape array or a scalar (int or
\* float), returns without error, and the result has the shape of R.
C3_DeAcceptsBatches ==
    (/\ returnedFrom(SixOps) /\ self.de /\ validShape(self)
     /\ allPositive(call.R))
        => (result.status = "ok" /\ result.shape = shapeOf(call.R))

\* C4: for every operation and input kind, the model with the other
\* strategy selector succeeds exactly when this one does, with a result of
\* the same shape.
C4_StrategyKeepsContract ==
    (returnedFrom(SixOps) /\ validShape(self) /\ allPositive(call.R)) =>
        LET other == apply(call.op, otherStrategy(self), call.R, call.z)
        IN  \/ result.status = "ok" /\ other.status = "ok" /\ result.shape = other.shape
            \/ result.status = "error" /\ other.status = "error"

\* a scalar call inside the contract (R > 0, a valid shape) that returned a value
scalarReturn(ops) ==
    /\ returnedFrom(ops) /\ validShape(self)
    /\ isScalar(call.R) /\ isScalar(call.z) /\ allPositive(call.R)
    /\ result.status = "ok"

theValue == result.elems[1].val
mirrored == apply(call.op, self, call.R, negOf(call.z)).elems[1].val
otherElem == apply(call.op, otherStrategy(self), call.R, call.z).elems[1]
zOf(c) == c.z.v[1]

\* a scalar vertical force or mixed derivative this class computed itself (a
\* delegated value is the fallback potential's own)
oddReturn == scalarReturn({"zforce", "Rzderiv"}) /\ result.elems[1].path # "kp"

deTables(op) ==
    CASE op \in {"potential", "zforce", "z2deriv"} -> {0}
      [] op = "R2deriv" -> {0, 1}
      [] OTHER -> {1}

deNode(s, nu, k) == IF nu = 0 THEN s.de_j0_xs[k] ELSE s.de_j1_xs[k]

\* node k of table nu sits on the singularity x/R == beta
onSingularity(s, nu, k, R) == REq(deNode(s, nu, k), RMul(s.beta, R))

\* C7: under the DE strategy, when the kernel at one node is non-finite
\* (x/R == beta), that term alone contributes zero: the value is finite and
\* is the prefactor times the sum of the weighted kernel terms of all the
\* other nodes (for secondDerivRR, of both tables).
C7_OnlyTheNaNTermIsDropped ==
    (/\ scalarReturn(SixOps) /\ self.de
     /\ \E nu \in deTables(call.op), k \in 1..self.de_n :
            onSingularity(self, nu, k, call.R.v[1]))
        => /\ theValue.tag = "fin"
           /\ theValue.body.terms =
                {term(IF call.op = "R2deriv" /\ nu = 1 THEN -1 ELSE 1, nu, k, k,
                      call.R.v[1], fabs(zOf(call))) :
                   <<nu, k>> \in {p \in deTables(call.op) \X (1..self.de_n) :
                                    ~onSingularity(self, p[1], p[2], call.R.v[1])}}

\* C8: under the legacy strategy every one of the six quantities is taken
\* from the fallback potential exactly when R > 16*hr or R > 6, and from
\* the quadrature otherwise.
C8_OneThresholdForAll ==
    (returnedFrom(SixOps) /\ ~self.de /\ validShape(self)
       /\ allPositive(call.R) /\ result.status = "ok")
        => \A i \in 1..Len(result.elems) :
              /\ result.elems[i].path = "kp"
                   <=> (RLt(RMul(RInt(16), self.hr), call.R.v[i]) \/ RLt(RInt(6), call.R.v[i]))
              /\ result.elems[i].path \in {"kp", "quad"}

\* the attributes only the legacy branch is meant to read
LegacyAttrs ==
    {"kp", "hr", "kmaxFac", "glx", "glw",
     "j0zeros", "dj0zeros", "j1zeros", "dj1zeros", "j2zeros", "dj2zeros"}

\* C9: a model built with the DE strategy never calls the fallback
\* potential nor reads the legacy tables, for any R and z; a value is formed
\* from DE table nodes only, and off the singularity from all de_n nodes of
\* each table the quantity uses, whatever R is.
C9_DeNeverFallsBack ==
    (returnedFrom(SixOps) /\ self.de) =>
        /\ result.kpCalls = 0
        /\ result.reads \cap LegacyAttrs = {}
        /\ \A i \in 1..Len(result.elems) :
              /\ result.elems[i].path = "de"
              /\ \A t \in result.elems[i].val.body.terms :
                    t.nu \in deTables(call.op) /\ t.node \in 1..self.de_n
        /\ (scalarReturn(SixOps)
              /\ \A nu \in deTables(call.op), k \in 1..self.de_n :
                     ~onSingularity(self, nu, k, call.R.v[1]))
             => \A nu \in deTables(call.op) :
                   {t.node : t \in {u \in theValue.body.terms : u.nu = nu}} = 1..self.de_n

\* a DE radial force beyond both legacy thresholds
C9_Witness ==
    /\ scalarReturn({"Rforce"}) /\ self.de
    /\ RLt(RMul(RInt(16), self.hr), call.R.v[1]) /\ RLt(RInt(6), call.R.v[1])
    /\ theValue.tag = "fin"

\* kmax of an operation, as a multiple of kmaxFac*beta
kmaxFactor(op) == IF op \in {"potential", "zforce", "z2deriv"} THEN 1 ELSE 2

\* the truncated quadrature q of an element at radius R is laid out as C10
\* says: m is an index of the table entry closest to kmax*max(R,1), and the
\* m intervals [zeros[i], zeros[i+1]], i < m, each carry the mapped nodes
quadLaidOut(s, op, q, R) ==
    LET Z == zerosOf(s, q.nu)
        t == RMul(RMul(RInt(kmaxFactor(op) * s.kmaxFac), s.beta),
                  IF RLt(R, RInt(1)) THEN RInt(1) ELSE R)
    IN  /\ q.t = t
        /\ q.m \in 0..s.nzeros
        /\ \A i \in 0..s.nzeros :
              RLe(RAbs(RSub(Z[q.m], t)), RAbs(RSub(Z[i], t)))
        /\ Len(q.ivs) = q.m
        /\ q.idx \subseteq 0..s.nzeros
        /\ \A n \in 1..q.m :
              /\ q.ivs[n].lo = Z[n - 1]
              /\ RAdd(q.ivs[n].lo, q.ivs[n].width) = Z[n]
              /\ Len(q.ivs[n].ks) = s.glorder
              /\ \A j \in 1..s.glorder :
                    /\ q.ivs[n].ks[j] =
                         RAdd(Z[n - 1],
                              RMul(RMul(RNorm(1, 2), RAdd(s.glx[j], RInt(1))),
                                   RSub(Z[n], Z[n - 1])))
                    /\ RLt(Z[n - 1], q.ivs[n].ks[j]) /\ RLt(q.ivs[n].ks[j], Z[n])

legacyQuadReturn == returnedFrom(SixOps) /\ ~self.de /\ result.status = "ok"

\* C10 as stated: in the legacy quadrature branch m is the index of the zero
\* closest to kmax*max(R,1), lies in 0..nzeros, and exactly the intervals
\* [zeros[i], zeros[i+1]], i < m, are accumulated with the mapped
\* Gauss-Legendre nodes, inside the table; and at least one interval is
\* accumulated for every valid configuration.
C10_AtLeastOneInterval ==
    (legacyQuadReturn /\ validShape(self) /\ allPositive(call.R)) =>
        \A i \in 1..Len(result.elems) :
            result.elems[i].path = "quad" =>
                \A k \in 1..Len(result.elems[i].quads) :
                    /\ quadLaidOut(self, call.op, result.elems[i].quads[k], call.R.v[i])
                    /\ result.elems[i].quads[k].m >= 1

\* C10 as amended: the same layout; an interval is accumulated exactly when
\* kmax*max(R,1) is nearer to the first zero than to the sentinel 0, that is
\* when it exceeds zeros[1]/2; otherwise m = 0 and nothing is accumulated.
C10_IntervalsUpToClosestZero ==
    legacyQuadReturn =>
        \A i \in 1..Len(result.elems) :
            result.elems[i].path = "quad" =>
                \A k \in 1..Len(result.elems[i].quads) :
                    LET q == result.elems[i].quads[k]
                    IN  /\ quadLaidOut(self, call.op, q, call.R.v[i])
                        /\ q.m >= 1 <=>
                             RLt(zerosOf(self, q.nu)[1], RMul(RInt(2), q.t))

\* a legacy second radial derivative whose two quadratures stop inside the
\* tables, with more than one node per interval
C10_Witness ==
    /\ legacyQuadReturn /\ validShape(self) /\ call.op = "R2deriv"
    /\ self.glorder >= 2
    /\ \E i \in 1..Len(result.elems) :
          /\ result.elems[i].path = "quad"
          /\ \A k \in 1..2 : /\ result.elems[i].quads[k].m >= 2
                             /\ result.elems[i].quads[k].m < self.nzeros

\* the three legacy tables of a model, each with its difference table
legacyTables(s) ==
    {<<s.j0zeros, s.dj0zeros>>, <<s.j1zeros, s.dj1zeros>>, <<s.j2zeros, s.dj2zeros>>}

\* a zero table of length nzeros+1, sentinel 0 first, strictly increasing,
\* and a difference table of the same length with d[i] = a[i] - a[i-1]
tablesLaidOut(s, a, d) ==
    /\ DOMAIN a = 0..s.nzeros /\ DOMAIN d = 0..s.nzeros
    /\ a[0] = RInt(0)
    /\ \A i \in 1..s.nzeros : RLt(a[i - 1], a[i]) /\ d[i] = RSub(a[i], a[i - 1])
    /\ d[1] = a[1]

\* C11 as stated: after construction each of the three zero tables has
\* length nzeros+1, starts with the sentinel 0 and is strictly increasing;
\* each difference table has the same length, holds zeros[i]-zeros[i-1] at
\* every i >= 1 (so the first difference is the first zero), and has every
\* entry strictly positive.
C11_AllDifferencesPositive ==
    self.constructed =>
        \A p \in legacyTables(self) :
            /\ tablesLaidOut(self, p[1], p[2])
            /\ \A i \in 0..self.nzeros : RPos(p[2][i])

\* C11 as amended: the same layout; the differences at i >= 1 are strictly
\* positive, and entry 0 of each difference table is the sentinel's 0, which
\* no quadrature reads.
C11_DifferencesPositiveFromOne ==
    self.constructed =>
        \A p \in legacyTables(self) :
            /\ tablesLaidOut(self, p[1], p[2])
            /\ \A i \in 1..self.nzeros : RPos(p[2][i])
            /\ p[2][0] = RInt(0)
            /\ (pc = "returned" /\ result.status = "ok") =>
                  \A e \in 1..Len(result.elems) :
                      \A k \in 1..Len(result.elems[e].quads) :
                          \A n \in 1..Len(result.elems[e].quads[k].ivs) :
                              RPos(result.elems[e].quads[k].ivs[n].width)

\* a constructed legacy model whose quadrature has used its last table entry
C11_Witness ==
    /\ self.constructed /\ ~self.de /\ pc = "returned" /\ result.status = "ok"
    /\ \E e \in 1..Len(result.elems) :
          /\ result.elems[e].path = "quad"
          /\ result.elems[e].quads[1].m = self.nzeros

====
